---- MODULE Spec2Model ----
(***************************************************************************)
(* Model of the dashboard back end (joao-jcc/dashboard-back): the record   *)
(* source (DatabaseManager), the analytics engine (InscriptionsAnalytics,  *)
(* RevenueAnalytics, DynamicFieldsAnalytics behind EventAnalytics), the     *)
(* token decryption, the FastAPI routes of main.py and the CSVLoader        *)
(* refresh loop.                                                            *)
(*                                                                         *)
(* Timestamps are integers counted in ticks, TicksPerDay ticks to the day,  *)
(* so that Timedelta.days (a floor) is not the identity.  Pandas data       *)
(* frames are sequences of records; an empty frame is the empty sequence.   *)
(***************************************************************************)
EXTENDS Integers, Sequences, FiniteSets, TLC

VARIABLES
    db,        \* the upstream database: eventos, inscricaos, transactions, event_dynamic_fields
    now,       \* datetime.now(), in ticks
    result,    \* what each analytics query on TheEvent returned: inscriptions,
               \* revenue, dynamic; NoResult before the query ran
    token,     \* the token handed to decrypt
    outcome,   \* what decrypt made of it, per implementation; NoResult before
    requests,  \* the HTTP requests: route, token, event id, position, locals, response
    analytics_org_id,   \* org_id of the module-level EventAnalytics instance
    loader_org_id,      \* org_id of its DatabaseManager
    files,     \* the CSV files of the data directory: the refresh that wrote each
    tables,    \* the CSVLoader's four attributes: the refresh each was read from
    clock,     \* the position of CSVLoader._clock_loop and the number of its refresh
    source,    \* the rows of the upstream table a paged export reads
    csv_files, \* the CSV file each export function writes
    paging,    \* the running call of export_data or get_data: its locals and position
    observed   \* history: the ids the last call could select when it started,
               \* and whether it found rows in its file

analyticsVars == <<db, now, result>>
decryptVars == <<token, outcome>>
serverVars == <<requests, analytics_org_id, loader_org_id>>
loaderVars == <<files, tables, clock>>
exportVars == <<source, csv_files, paging, observed>>
vars == <<db, now, result, token, outcome, requests, analytics_org_id, loader_org_id,
          files, tables, clock, source, csv_files, paging, observed>>

----------------------------------------------------------------------------
(* Bounds of the model *)

TicksPerDay == 2     \* granularity of a timestamp: ticks in one day
MaxTime == 5         \* timestamps of records range over -1..MaxTime
MaxRegs == 3         \* registrations of the event under analysis
MaxTx == 2           \* revenue-eligible transactions of the event under analysis
MaxBlobs == 2        \* registrations that carry an answer blob
MaxRequests == 2     \* HTTP requests in flight
MaxCycles == 3       \* refreshes of the CSV loader's clock
MaxId == 3           \* the ids of the upstream rows are 1..MaxId
MaxBatch == 2        \* the batch sizes are 1..MaxBatch

Times == (0 - 1)..MaxTime

(* Identifiers of the rows of the inputs *)

TheEvent == 1        \* id of the event under analysis
OtherEvent == 2      \* an event of another organization
OrgA == 17881        \* the organization of TheEvent (the default org_id)
OrgB == 2            \* the organization of OtherEvent

----------------------------------------------------------------------------
(* Generic helpers *)

NoResult == [kind |-> "none"]
Raise(e) == [kind |-> "raise", exc |-> e]

Min(a, b) == IF a <= b THEN a ELSE b
Max(a, b) == IF a >= b THEN a ELSE b

\* Timedelta.days: the floor of a difference of timestamps, in days
Days(delta) == delta \div TicksPerDay

\* Python round(num / den, digits) for den > 0, as an integer count of
\* 10^-digits units (scale = 10^digits); ties go to the even neighbour
RoundDiv(num, den, scale) ==
    LET q == (num * scale) \div den
        r == (num * scale) % den
    IN  IF 2 * r < den THEN q
        ELSE IF 2 * r > den THEN q + 1
        ELSE IF q % 2 = 0 THEN q ELSE q + 1

RECURSIVE SumSeq(_)
SumSeq(s) == IF s = <<>> THEN 0 ELSE Head(s) + SumSeq(Tail(s))

\* the sequences over S of length at most n
SeqsUpTo(S, n) == UNION {[1..k -> S] : k \in 0..n}

\* ORDER BY created_at ASC (ties by primary key) of a set of rows
RECURSIVE OrderByCreatedAt(_)
OrderByCreatedAt(rows) ==
    IF rows = {} THEN <<>>
    ELSE LET first == CHOOSE r \in rows : \A o \in rows :
                          \/ r.created_at < o.created_at
                          \/ r.created_at = o.created_at /\ r.id <= o.id
         IN  <<first>> \o OrderByCreatedAt(rows \ {first})

RECURSIVE OrderById(_)
OrderById(rows) ==
    IF rows = {} THEN <<>>
    ELSE LET first == CHOOSE r \in rows : \A o \in rows : r.id <= o.id
         IN  <<first>> \o OrderById(rows \ {first})

----------------------------------------------------------------------------
(* DatabaseManager: the queries of the record source *)

CountedStatus == {"Ok", "Pendente"}

\* SELECT ... FROM eventos e WHERE e.id = %s  (no organization filter)
loader_get_event_by_id(event_id) ==
    LET rows == {e \in db.eventos : e.id = event_id}
    IN  [i \in 1..Len(OrderById(rows)) |->
            LET e == OrderById(rows)[i]
            IN  [id |-> e.id, name |-> e.titulo, start_date |-> e.data_inicio,
                 created_at |-> e.created_at,
                 target_inscriptions |-> e.limit_maximo_inscritos]]

\* SELECT ... FROM eventos e WHERE e.igreja_id = %s ORDER BY LOWER(e.titulo), with
\* self.org_id as the parameter.  The rows are listed by id: the mapping built
\* from them does not keep their order.
loader_get_events_for_org ==
    LET rows == OrderById({e \in db.eventos : e.igreja_id = loader_org_id})
    IN  [i \in 1..Len(rows) |->
            [id |-> rows[i].id, name |-> rows[i].titulo,
             start_date |-> rows[i].data_inicio, created_at |-> rows[i].created_at,
             target_inscriptions |-> rows[i].limit_maximo_inscritos]]

\* the inscricaos rows of an event that count: status and canceled filter
CountedInscricaos(event_id) ==
    {i \in db.inscricaos : /\ i.evento_id = event_id
                           /\ i.status \in CountedStatus
                           /\ i.canceled = 0}

\* SELECT created_at FROM inscricaos WHERE evento_id = %s AND status IN (...)
\* AND canceled = 0 ORDER BY created_at ASC
loader_get_event_inscriptions(event_id) ==
    LET rows == OrderByCreatedAt(CountedInscricaos(event_id))
    IN  [i \in 1..Len(rows) |-> [created_at |-> rows[i].created_at]]

----------------------------------------------------------------------------
(* InscriptionsAnalytics *)

\* an average taken over the whole lead window, also before the event starts
_calculate_average_inscriptions_ToStart(event_data, current_inscriptions) ==
    LET total_days == Days(event_data.start_date - event_data.created_at)
    IN  IF total_days <= 0 THEN 0
        ELSE RoundDiv(current_inscriptions, total_days, 100)

_calculate_average_inscriptions(event_data, current_inscriptions) ==
    LET end_period == Min(now, event_data.start_date)
        total_days == Days(end_period - event_data.created_at)
    IN  IF total_days <= 0 THEN 0
        ELSE RoundDiv(current_inscriptions, total_days, 100)

\* a forced last bucket that was forgotten
ForceTotal_Skipped(cumulative, total_inscriptions) == cumulative

\* if len(cumulative) > 0: cumulative[-1] = total_inscriptions
ForceTotal(cumulative, total_inscriptions) ==
    [i \in 1..Len(cumulative) |->
        IF i = Len(cumulative) THEN total_inscriptions ELSE cumulative[i]]

\* days_range = np.arange(max_days, -1, -1)
DaysRangeDown(max_days) ==
    IF max_days < 0 THEN <<>> ELSE [i \in 1..(max_days + 1) |-> max_days + 1 - i]

_generate_inscriptions_chart_data(event_data, inscriptions_df) ==
    IF inscriptions_df = <<>>
    THEN [remaining_days |-> <<>>, inscriptions |-> <<>>]
    ELSE
    LET dias_antecedencia == [i \in 1..Len(inscriptions_df) |->
                                 Days(event_data.start_date - inscriptions_df[i].created_at)]
        max_days == Days(event_data.start_date - event_data.created_at)
        total_inscriptions == Len(inscriptions_df)
        \* counts = value_counts(): how many registrations have that lead day
        counts(day) == Cardinality({i \in 1..Len(dias_antecedencia) :
                                       dias_antecedencia[i] = day})
        days_range == DaysRangeDown(max_days)
        \* the running sum of the loop over days_range
        cum_sum(i) == SumSeq([j \in 1..i |-> counts(days_range[j])])
        cumulative == [i \in 1..Len(days_range) |-> cum_sum(i)]
    IN  [remaining_days |-> days_range,
         inscriptions |-> ForceTotal(cumulative, total_inscriptions)]

InscriptionsAnalytics_get_event_inscriptions(event_id) ==
    LET inscriptions_df == loader_get_event_inscriptions(event_id)
        event_df == loader_get_event_by_id(event_id)
    IN  IF inscriptions_df = <<>>
        THEN [kind |-> "ok", id |-> event_id,
              chartDataInscriptions |-> [remaining_days |-> <<>>, inscriptions |-> <<>>],
              currentInscriptions |-> 0,
              averageInscriptions |-> 0,
              targetInscriptions |-> 0]
        ELSE IF event_df = <<>> THEN Raise("IndexError")   \* event_df.iloc[0]
        ELSE LET event_data == event_df[1]
                 current_inscriptions == Len(inscriptions_df)
             IN  [kind |-> "ok", id |-> event_id,
                  chartDataInscriptions |->
                      _generate_inscriptions_chart_data(event_data, inscriptions_df),
                  currentInscriptions |-> current_inscriptions,
                  averageInscriptions |->
                      _calculate_average_inscriptions(event_data, current_inscriptions),
                  targetInscriptions |-> event_data.target_inscriptions]

----------------------------------------------------------------------------
(* DatabaseManager: transactions *)

RevenueCountsFor == {"both", "organization_only"}

\* SELECT t.amount, t.credit, t.created_at AS transaction_date FROM transactions t
\* WHERE t.enrollment_id IN (counted inscricaos of the event)
\* AND t.counts_for IN ('both', 'organization_only') ORDER BY t.created_at ASC
loader_get_event_transactions_data(event_id) ==
    LET enrollments == {i.id : i \in CountedInscricaos(event_id)}
        rows == OrderByCreatedAt({t \in db.transactions :
                                     /\ t.enrollment_id \in enrollments
                                     /\ t.counts_for \in RevenueCountsFor})
    IN  [i \in 1..Len(rows) |-> [amount |-> rows[i].amount, credit |-> rows[i].credit,
                                 transaction_date |-> rows[i].created_at]]

----------------------------------------------------------------------------
(* Signed-amount normalizer: texts are sequences of characters, floats are   *)
(* counted in hundredths (cents); NaN is a float of its own.                 *)

Num(v) == [nan |-> FALSE, v |-> v]
NaN == [nan |-> TRUE, v |-> 0]
Null == <<"NULL">>          \* a NULL column value (never a text: no such character)

Digit == {"0", "1", "2", "3", "4", "5", "6", "7", "8", "9"}

DigitVal(c) ==
    CASE c = "0" -> 0 [] c = "1" -> 1 [] c = "2" -> 2 [] c = "3" -> 3 [] c = "4" -> 4
      [] c = "5" -> 5 [] c = "6" -> 6 [] c = "7" -> 7 [] c = "8" -> 8 [] c = "9" -> 9

RECURSIVE DigitsValue(_)
DigitsValue(s) ==
    IF s = <<>> THEN 0
    ELSE DigitsValue(SubSeq(s, 1, Len(s) - 1)) * 10 + DigitVal(s[Len(s)])

\* the amount text handed on with its decimal comma
ReplaceComma_Skipped(text) == text

\* .str.replace(',', '.')
ReplaceComma(text) == [i \in 1..Len(text) |-> IF text[i] = "," THEN "." ELSE text[i]]

\* pd.to_numeric(text, errors='coerce'): [sign] digits [. digits], at least one
\* digit, anything else is NaN.  The value is kept to the cent: the texts of the
\* model carry at most two decimals.
to_numeric(text) ==
    LET signed == text # <<>> /\ text[1] \in {"-", "+"}
        body == IF signed THEN Tail(text) ELSE text
        dots == {i \in 1..Len(body) : body[i] = "."}
        wellFormed == /\ \A i \in 1..Len(body) : body[i] \in Digit \cup {"."}
                      /\ Cardinality(dots) <= 1
                      /\ \E i \in 1..Len(body) : body[i] \in Digit
        dot == IF dots = {} THEN Len(body) + 1 ELSE CHOOSE i \in dots : TRUE
        int_part == SubSeq(body, 1, dot - 1)
        frac == SubSeq(body, dot + 1, Len(body))
        frac2 == SubSeq(frac \o <<"0", "0">>, 1, 2)
        cents == DigitsValue(int_part) * 100 + DigitsValue(frac2)
    IN  IF ~wellFormed THEN NaN
        ELSE Num(IF signed /\ text[1] = "-" THEN 0 - cents ELSE cents)

\* amount_float * credit.replace({0: -1, 1: 1})
SignedAmount(amount_float, credit) ==
    IF amount_float.nan THEN NaN
    ELSE Num(amount_float.v * (IF credit = 0 THEN 0 - 1 ELSE credit))

\* Series.sum() and np.cumsum over group sums: NaN terms are skipped
RECURSIVE NanSum(_)
NanSum(s) ==
    IF s = <<>> THEN 0
    ELSE (IF Head(s).nan THEN 0 ELSE Head(s).v) + NanSum(Tail(s))

\* the rows of a frame at the positions idx, in order (boolean indexing)
RECURSIVE SelectRows(_, _)
SelectRows(df, idx) ==
    IF idx = {} THEN <<>>
    ELSE LET last == CHOOSE i \in idx : \A j \in idx : j <= i
         IN  SelectRows(df, idx \ {last}) \o <<df[last]>>

----------------------------------------------------------------------------
(* RevenueAnalytics *)

_prepare_transactions_df(transactions_df, event_data) ==
    LET \* dropna(subset=['amount', 'credit', 'transaction_date'])
        df == SelectRows(transactions_df,
                         {i \in 1..Len(transactions_df) : transactions_df[i].amount # Null})
    IN  [i \in 1..Len(df) |->
            LET amount_float == to_numeric(ReplaceComma(df[i].amount))
            IN  [amount |-> df[i].amount, credit |-> df[i].credit,
                 amount_float |-> amount_float,
                 signed_amount |-> SignedAmount(amount_float, df[i].credit),
                 created_at |-> df[i].transaction_date,
                 dias_antecedencia |->
                     Days(event_data.start_date - df[i].transaction_date)]]

\* round(transactions_df['signed_amount'].sum(), 2)
_calculate_total_revenue(transactions_df) ==
    NanSum([i \in 1..Len(transactions_df) |-> transactions_df[i].signed_amount])

\* groupby('dias_antecedencia')['signed_amount'].sum().reindex(days_range, fill_value=0)
DailyRevenue(transactions_df, day) ==
    LET rows == SelectRows(transactions_df,
                           {i \in 1..Len(transactions_df) :
                               transactions_df[i].dias_antecedencia = day})
    IN  NanSum([i \in 1..Len(rows) |-> rows[i].signed_amount])

\* a running sum taken from lead day 0 upwards
ReverseCumSum_Forward(daily_revenue) ==
    [i \in 1..Len(daily_revenue) |-> SumSeq(SubSeq(daily_revenue, 1, i))]

\* np.cumsum(daily_revenue[::-1])[::-1]
ReverseCumSum(daily_revenue) ==
    [i \in 1..Len(daily_revenue) |-> SumSeq(SubSeq(daily_revenue, i, Len(daily_revenue)))]

_generate_revenue_chart_data(event_data, transactions_df) ==
    LET max_days == Days(event_data.start_date - event_data.created_at)
        \* days_range = np.arange(0, max_days + 1)
        days_range == IF max_days < 0 THEN <<>> ELSE [i \in 1..(max_days + 1) |-> i - 1]
        daily_revenue == [i \in 1..Len(days_range) |->
                             DailyRevenue(transactions_df, days_range[i])]
        cumulative == ReverseCumSum(daily_revenue)
    IN  [remaining_days |-> days_range, revenue |-> cumulative]

\* round(mean of amount_float over the credit rows, 2); the mean skips NaN and
\* is NaN when no number is left
_calculate_ticket_price(transactions_df) ==
    LET df == SelectRows(transactions_df,
                         {i \in 1..Len(transactions_df) : transactions_df[i].credit = 1})
        numbers == SelectRows(df, {i \in 1..Len(df) : ~df[i].amount_float.nan})
    IN  IF df = <<>> THEN Num(0)
        ELSE IF numbers = <<>> THEN NaN
        ELSE Num(RoundDiv(NanSum([i \in 1..Len(numbers) |-> numbers[i].amount_float]),
                          Len(numbers), 1))

\* an empty view that carries one zero bucket instead of no bucket
EmptyRevenue_ZeroBucket(event_id) ==
    [kind |-> "ok", id |-> event_id,
     chartDataRevenue |-> [remaining_days |-> <<0>>, revenue |-> <<0>>],
     ticketPrice |-> Num(0), totalRevenue |-> 0]

\* the view returned when event_df.empty or transactions_df.empty
EmptyRevenue(event_id) ==
    [kind |-> "ok", id |-> event_id,
     chartDataRevenue |-> [remaining_days |-> <<>>, revenue |-> <<>>],
     ticketPrice |-> Num(0), totalRevenue |-> 0]

RevenueAnalytics_get_event_revenue(event_id) ==
    LET event_df == loader_get_event_by_id(event_id)
        raw_df == loader_get_event_transactions_data(event_id)
    IN  IF event_df = <<>> \/ raw_df = <<>> THEN EmptyRevenue(event_id)
        ELSE LET event_data == event_df[1]
                 transactions_df == _prepare_transactions_df(raw_df, event_data)
             IN  [kind |-> "ok", id |-> event_id,
                  chartDataRevenue |->
                      _generate_revenue_chart_data(event_data, transactions_df),
                  ticketPrice |-> _calculate_ticket_price(transactions_df),
                  totalRevenue |-> _calculate_total_revenue(transactions_df)]

----------------------------------------------------------------------------
(* DatabaseManager: dynamic fields *)

\* SELECT serial_event_dynamic_fields FROM inscricaos WHERE evento_id = %s
\* AND status IN (...) AND canceled = 0 ORDER BY created_at ASC
loader_get_event_dynamic_fields(event_id) ==
    LET rows == OrderByCreatedAt(CountedInscricaos(event_id))
    IN  [i \in 1..Len(rows) |->
            [serial_event_dynamic_fields |-> rows[i].serial_event_dynamic_fields]]

\* SELECT id, label FROM event_dynamic_fields WHERE evento_id = %s ORDER BY id ASC
loader_get_event_fields(event_id) ==
    LET rows == OrderById({f \in db.event_dynamic_fields : f.evento_id = event_id})
    IN  [i \in 1..Len(rows) |-> [id |-> rows[i].id, label |-> rows[i].label]]

----------------------------------------------------------------------------
(* DynamicFieldsAnalytics: the answer blobs are sequences of characters *)

Whitespace == {" ", "\n", "\t"}      \* the characters \s matches

Undefined == <<"u", "n", "d", "e", "f", "i", "n", "e", "d">>

DigitChar(d) ==
    CASE d = 0 -> "0" [] d = 1 -> "1" [] d = 2 -> "2" [] d = 3 -> "3" [] d = 4 -> "4"
      [] d = 5 -> "5" [] d = 6 -> "6" [] d = 7 -> "7" [] d = 8 -> "8" [] d = 9 -> "9"

\* str(n) of a natural number
RECURSIVE Str(_)
Str(n) == IF n < 10 THEN <<DigitChar(n)>> ELSE Str(n \div 10) \o <<DigitChar(n % 10)>>

\* the first position >= p of s whose character is not in chars (Len(s) + 1 if none)
RECURSIVE SkipWhile(_, _, _)
SkipWhile(s, p, chars) ==
    IF p > Len(s) \/ s[p] \notin chars THEN p ELSE SkipWhile(s, p + 1, chars)

\* the first position >= p of s that holds a newline (Len(s) + 1 if none)
RECURSIVE LineEnd(_, _)
LineEnd(s, p) == IF p > Len(s) \/ s[p] = "\n" THEN p ELSE LineEnd(s, p + 1)

\* str.strip()
RECURSIVE Strip(_)
Strip(s) ==
    IF s = <<>> THEN s
    ELSE IF Head(s) \in Whitespace THEN Strip(Tail(s))
    ELSE IF s[Len(s)] \in Whitespace THEN Strip(SubSeq(s, 1, Len(s) - 1))
    ELSE s

\* one match of r"(\d+):\s*([^\n]*)" that starts at p, or no match:
\* \d+ takes the whole run of digits, \s* every white space (newlines too),
\* [^\n]* the rest of the line reached
MatchAt(s, p) ==
    LET q == SkipWhile(s, p, Digit)          \* first position after the digits
        w == SkipWhile(s, q + 1, Whitespace) \* first position after ':' and \s*
        e == LineEnd(s, w)                   \* first position after the value
    IN  IF p <= Len(s) /\ s[p] \in Digit /\ q <= Len(s) /\ s[q] = ":"
        THEN [found |-> TRUE, field_id |-> SubSeq(s, p, q - 1),
              field_value |-> SubSeq(s, w, e - 1), next |-> e]
        ELSE [found |-> FALSE, field_id |-> <<>>, field_value |-> <<>>, next |-> p + 1]

\* Series.str.extractall on one string: the matches from left to right,
\* field_value stripped
RECURSIVE extractall(_, _)
extractall(s, p) ==
    IF p > Len(s) THEN <<>>
    ELSE LET m == MatchAt(s, p)
         IN  IF m.found
             THEN <<[field_id |-> m.field_id, field_value |-> Strip(m.field_value)]>>
                  \o extractall(s, m.next)
             ELSE extractall(s, m.next)

\* fillna(""), then the matches of every row, each with the row it comes from
RECURSIVE Explode(_, _)
Explode(inscriptions_df, i) ==
    IF i > Len(inscriptions_df) THEN <<>>
    ELSE LET serial == inscriptions_df[i].serial_event_dynamic_fields
             text == IF serial = Null THEN <<>> ELSE serial
             found == extractall(text, 1)
         IN  [k \in 1..Len(found) |->
                 [inscricao_idx |-> i, field_id |-> found[k].field_id,
                  field_value |-> found[k].field_value]]
             \o Explode(inscriptions_df, i + 1)

\* value_counts().to_dict(), then counts['undefined'] = undefined_count if > 0
FieldCounts(field_values, total_inscr) ==
    LET values == {field_values[i] : i \in 1..Len(field_values)}
        undefined_count == total_inscr - Len(field_values)
        keys == IF undefined_count > 0 THEN values \cup {Undefined} ELSE values
    IN  [v \in keys |->
            IF undefined_count > 0 /\ v = Undefined THEN undefined_count
            ELSE Cardinality({i \in 1..Len(field_values) : field_values[i] = v})]

\* if unique_types > 1 and unique_types <= 20
PassesFilter(unique_types) == unique_types > 1 /\ unique_types <= 20

\* result[field_label] = counts, over the fields in order: a later field
\* replaces the entry of an earlier one with the same label
BuildResult(fields, counts_of) ==
    LET passing == {i \in 1..Len(fields) :
                       PassesFilter(Cardinality(DOMAIN counts_of[i]))}
        Last(label) == CHOOSE i \in passing :
                           /\ fields[i].label = label
                           /\ \A j \in passing : fields[j].label = label => j <= i
    IN  [label \in {fields[i].label : i \in passing} |-> counts_of[Last(label)]]

DynamicFieldsAnalytics_get_dynamic_fields_distribution(event_id) ==
    LET event_fields_df == loader_get_event_fields(event_id)
        inscriptions_df == loader_get_event_dynamic_fields(event_id)
        labels == [i \in 1..Len(event_fields_df) |-> event_fields_df[i].label]
        valid_field_ids == {Str(event_fields_df[i].id) : i \in 1..Len(event_fields_df)}
        all == Explode(inscriptions_df, 1)
        exploded == SelectRows(all, {k \in 1..Len(all) : all[k].field_id \in valid_field_ids})
        field_values(i) ==
            LET mine == SelectRows(exploded, {k \in 1..Len(exploded) :
                                      exploded[k].field_id = Str(event_fields_df[i].id)})
            IN  [k \in 1..Len(mine) |-> mine[k].field_value]
        counts_of == [i \in 1..Len(event_fields_df) |->
                         FieldCounts(field_values(i), Len(inscriptions_df))]
    IN  IF event_fields_df = <<>>
        THEN [kind |-> "ok", labels |-> <<>>, distribution |-> <<>>]
        ELSE IF inscriptions_df = <<>>
        THEN [kind |-> "ok", labels |-> labels, distribution |-> <<>>]
        ELSE [kind |-> "ok", labels |-> labels,
              distribution |-> BuildResult(event_fields_df, counts_of)]

----------------------------------------------------------------------------
(* Token decryption.  A token is described by what each stage of decrypt makes  *)
(* of it: the split at the dot, the two Base64 decodings, the DER key, the RSA  *)
(* and AES decryptions, the UTF-8 decoding and the literal the plaintext holds. *)

Return(v) == [kind |-> "return", value |-> v]

EmptyString == <<>>

\* what ast.literal_eval(final_value)['org_id'] meets
PlaintextForms ==
    {"dict_with_org_id",       \* "{'org_id': 17881}"
     "dict_without_org_id",    \* "{'org': 17881}": KeyError
     "not_python",             \* "org_id=17881": SyntaxError
     "not_a_literal",          \* "{'org_id': f()}": ValueError
     "list_literal",           \* "['org_id']": TypeError on the subscript
     "number_literal"}         \* "17881": TypeError on the subscript

Tokens ==
    [dot : BOOLEAN,                        \* the token holds a '.'
     raw : {<<"1", "7", "8", "8", "1">>, <<"x">>},   \* its text, when it holds no '.'
     payload_b64 : BOOLEAN,                \* payloadPart is valid Base64
     key_b64 : BOOLEAN,                    \* keyPart is valid Base64
     key : {"rsa", "ec", "garbage"},       \* what the key bytes are, as PKCS#8 DER
     rsa_ok : BOOLEAN,                     \* RSA-OAEP decrypts the first 256 bytes
     aes_ok : BOOLEAN,                     \* key size, IV and block alignment fit AES-CBC
     utf8 : BOOLEAN,                       \* the plaintext is UTF-8
     form : PlaintextForms,
     org_id : {OrgA, OrgB}]

\* the try block at the end of decrypt: (ValueError, SyntaxError, KeyError) are
\* caught and give '', any other error leaves the function
EvalOrgId(t) ==
    CASE t.form = "dict_with_org_id" -> Return(Str(t.org_id))
      [] t.form \in {"dict_without_org_id", "not_python", "not_a_literal"} ->
             Return(EmptyString)
      [] t.form \in {"list_literal", "number_literal"} -> Raise("TypeError")

\* the stages of decrypt after the split, shared by both implementations
DecryptStages(t) ==
    IF ~t.payload_b64 \/ ~t.key_b64 THEN Raise("binascii.Error")   \* _b64url_decode
    ELSE IF t.key = "garbage" THEN Raise("ValueError")     \* load_der_private_key
    ELSE IF t.key # "rsa" THEN Raise("ValueError")         \* isinstance check
    ELSE IF ~t.rsa_ok THEN Raise("ValueError")             \* private_key.decrypt
    ELSE IF ~t.aes_ok THEN Raise("ValueError")             \* Cipher / finalize
    ELSE IF ~t.utf8 THEN Raise("UnicodeDecodeError")       \* plaintext_bytes.decode
    ELSE EvalOrgId(t)

\* src/crypto_utils.py: the split of a token without '.' cannot be unpacked
decrypt(t) ==
    IF ~t.dot THEN Raise("ValueError") ELSE DecryptStages(t)

\* src/utils/crypto.py: a token without '.' is returned as it is
utils_decrypt(t) ==
    IF ~t.dot THEN Return(t.raw) ELSE DecryptStages(t)

----------------------------------------------------------------------------
(* analytics.py: the former EventAnalytics, which computes every figure of an *)
(* event in one call, get_event_details.  The queries it calls are not part   *)
(* of DatabaseManager any more; they are taken as the record source states    *)
(* them: the event's row, its counted registrations, its revenue-eligible     *)
(* transactions.                                                               *)

\* db.get_event_by_id: the row of the event, as a sequence of at most one row
get_event_by_id(event_id) == OrderById({e \in db.eventos : e.id = event_id})

\* db.get_inscricoes_for_event: the counted registrations of the event
get_inscricoes_for_event(event_id) == loader_get_event_inscriptions(event_id)

\* db.get_transactions_for_event: the revenue-eligible transactions of the event
get_transactions_for_event(event_id) ==
    LET rows == loader_get_event_transactions_data(event_id)
    IN  [i \in 1..Len(rows) |-> [amount |-> rows[i].amount, credit |-> rows[i].credit,
                                 created_at |-> rows[i].transaction_date]]

\* db.get_total_revenue_for_event: the sum of the signed amounts, computed in SQL
get_total_revenue_for_event(event_id) ==
    LET rows == get_transactions_for_event(event_id)
        signed(row) == IF row.amount = Null THEN NaN
                       ELSE SignedAmount(to_numeric(ReplaceComma(row.amount)), row.credit)
    IN  NanSum([i \in 1..Len(rows) |-> signed(rows[i])])

\* .astype(str).str.replace(',', '.').astype(float): a text that is no number,
\* the 'None' of a NULL included, raises ValueError (NaN stands for the raise)
astype_float(text) == IF text = Null THEN NaN ELSE to_numeric(ReplaceComma(text))

Legacy_calculate_ticket_price(transactions_df) ==
    LET credit_transactions ==
            SelectRows(transactions_df,
                       {i \in 1..Len(transactions_df) : transactions_df[i].credit = 1})
        amounts == [i \in 1..Len(credit_transactions) |->
                       astype_float(credit_transactions[i].amount)]
    IN  IF transactions_df = <<>> \/ credit_transactions = <<>> THEN Return(0)
        ELSE IF \E i \in 1..Len(amounts) : amounts[i].nan THEN Raise("ValueError")
        ELSE Return(RoundDiv(NanSum(amounts), Len(amounts), 1))

Legacy_calculate_average_inscriptions(event_data, inscriptions_df) ==
    LET total_days == IF now < event_data.data_inicio
                      THEN Days(now - event_data.created_at)
                      ELSE Days(event_data.data_inicio - event_data.created_at)
    IN  IF total_days <= 0 THEN 0
        ELSE RoundDiv(Len(inscriptions_df), total_days, 100)

\* a target that lets the surplus of registrations count
RemainingNeeded_Signed(goal, current_inscriptions) == goal - current_inscriptions

\* remaining_needed = max(0, goal - current_inscriptions)
RemainingNeeded(goal, current_inscriptions) == Max(0, goal - current_inscriptions)

\* in tenths: round(remaining_needed / days_remaining, 1)
_calculate_daily_target(event_data, inscriptions_df) ==
    LET days_remaining == Days(event_data.data_inicio - now)
        remaining_needed == RemainingNeeded(event_data.limit_maximo_inscritos,
                                            Len(inscriptions_df))
    IN  IF now >= event_data.data_inicio THEN 0
        ELSE IF days_remaining <= 0 THEN 0
        ELSE RoundDiv(remaining_needed, days_remaining, 10)

\* min_days of the two chart functions
MinDays(event_data) ==
    IF now < event_data.data_inicio
    THEN Max(0, Days(event_data.data_inicio - now))
    ELSE 0

\* range(max_days_antecedence, min_days - 1, -1)
RangeDown(max_days_antecedence, min_days) ==
    IF max_days_antecedence < min_days THEN <<>>
    ELSE [i \in 1..(max_days_antecedence - min_days + 1) |-> max_days_antecedence + 1 - i]

Legacy_generate_inscriptions_chart_data(event_data, inscriptions_df) ==
    LET max_days_antecedence == Days(event_data.data_inicio - event_data.created_at)
        dias_antecedencia == [i \in 1..Len(inscriptions_df) |->
                                 Days(event_data.data_inicio - inscriptions_df[i].created_at)]
        remaining_days == RangeDown(max_days_antecedence, MinDays(event_data))
    IN  IF inscriptions_df = <<>> THEN [remaining_days |-> <<>>, inscriptions |-> <<>>]
        ELSE [remaining_days |-> remaining_days,
              inscriptions |->
                  [k \in 1..Len(remaining_days) |->
                      Cardinality({i \in 1..Len(dias_antecedencia) :
                                      dias_antecedencia[i] >= remaining_days[k]})]]

Legacy_generate_revenue_chart_data(event_data, transactions_df) ==
    LET max_days_antecedence == Days(event_data.data_inicio - event_data.created_at)
        amount_float == [i \in 1..Len(transactions_df) |->
                            astype_float(transactions_df[i].amount)]
        dias_antecedencia == [i \in 1..Len(transactions_df) |->
                                 Days(event_data.data_inicio - transactions_df[i].created_at)]
        remaining_days == RangeDown(max_days_antecedence, MinDays(event_data))
        signed(i) == IF transactions_df[i].credit = 1 THEN amount_float[i].v
                     ELSE 0 - amount_float[i].v
        revenue(days) ==
            LET relevant == {i \in 1..Len(transactions_df) : dias_antecedencia[i] >= days}
            IN  SumSeq([i \in 1..Len(transactions_df) |->
                           IF i \in relevant THEN signed(i) ELSE 0])
    IN  IF transactions_df = <<>> THEN Return([remaining_days |-> <<>>, revenue |-> <<>>])
        ELSE IF \E i \in 1..Len(amount_float) : amount_float[i].nan
        THEN Raise("ValueError")
        ELSE Return([remaining_days |-> remaining_days,
                     revenue |-> [k \in 1..Len(remaining_days) |->
                                     revenue(remaining_days[k])]])

get_event_details(event_id) ==
    LET event_df == get_event_by_id(event_id)
        event_data == event_df[1]
        inscriptions_df == get_inscricoes_for_event(event_id)
        transactions_df == get_transactions_for_event(event_id)
        ticket_price == Legacy_calculate_ticket_price(transactions_df)
        chart_revenue == Legacy_generate_revenue_chart_data(event_data, transactions_df)
    IN  IF event_df = <<>> THEN Return(<<>>)
        ELSE IF ticket_price.kind = "raise" THEN ticket_price
        ELSE IF chart_revenue.kind = "raise" THEN chart_revenue
        ELSE [kind |-> "ok", id |-> event_id, name |-> event_data.titulo,
              chartDataInscriptions |->
                  Legacy_generate_inscriptions_chart_data(event_data, inscriptions_df),
              chartDataRevenue |-> chart_revenue.value,
              currentInscriptions |-> Len(inscriptions_df),
              averageInscriptions |->
                  Legacy_calculate_average_inscriptions(event_data, inscriptions_df),
              targetInscriptions |-> event_data.limit_maximo_inscritos,
              daysRemaining |-> Max(0, Days(event_data.data_inicio - now)),
              dailyInscriptionsGoal |-> _calculate_daily_target(event_data, inscriptions_df),
              ticketPrice |-> ticket_price.value,
              totalRevenue |-> get_total_revenue_for_event(event_id),
              isActive |-> now < event_data.data_inicio]

----------------------------------------------------------------------------
(* The inputs of the analytics specifications *)

Evento(id, org, created, start, target) ==
    [id |-> id, igreja_id |-> org, titulo |-> IF org = OrgA THEN "Retiro" ELSE "Congresso",
     created_at |-> created, data_inicio |-> start, limit_maximo_inscritos |-> target]

Inscricao(id, ev, status, canceled, created, serial) ==
    [id |-> id, evento_id |-> ev, status |-> status, canceled |-> canceled,
     created_at |-> created, serial_event_dynamic_fields |-> serial]

Transaction(id, enrollment, amount, credit, counts_for, created) ==
    [id |-> id, enrollment_id |-> enrollment, amount |-> amount, credit |-> credit,
     counts_for |-> counts_for, created_at |-> created]

Field(id, ev, label) == [id |-> id, evento_id |-> ev, label |-> label]

\* rows that the queries must leave out: registrations hidden by the status and
\* canceled filter, a registration of another event, and their transactions
HiddenInscricaos ==
    {Inscricao(90, TheEvent, "Cancelado", 0, 1, <<"1", ":", " ", "L">>),
     Inscricao(91, TheEvent, "Ok", 1, 2, <<"1", ":", " ", "L">>),
     Inscricao(95, OtherEvent, "Ok", 0, 1, <<"1", ":", " ", "L">>)}

HiddenTransactions(own) ==
    {Transaction(91, 91, <<"4", ",", "0", "0">>, 1, "both", 1),
     Transaction(95, 95, <<"4", ",", "0", "0">>, 1, "both", 1)}
    \cup {Transaction(90, i.id, <<"4", ",", "0", "0">>, 1, "participant_only", 1) :
             i \in own}

OtherEvento == Evento(OtherEvent, OrgB, 0, 4, 5)

\* sequences over S of length at most n whose keys ascend (ids follow insertion)
Ascending(S, n, key(_)) ==
    {s \in SeqsUpTo(S, n) : \A i \in 1..(Len(s) - 1) : key(s[i]) <= key(s[i + 1])}

Self(x) == x

InscriptionsDbs ==
    {[eventos |-> {Evento(TheEvent, OrgA, 0, start, 2), OtherEvento},
      inscricaos |-> {Inscricao(i, TheEvent, IF i % 2 = 1 THEN "Ok" ELSE "Pendente",
                                0, ts[i], <<>>) : i \in 1..Len(ts)}
                     \cup HiddenInscricaos,
      transactions |-> HiddenTransactions({}),
      event_dynamic_fields |-> {}] :
        start \in Times, ts \in Ascending(Times, MaxRegs, Self)}

\* amount texts with their credit flag: decimal comma, credit and debit, a text
\* that is no number, a NULL
Amounts ==
    {[amount |-> <<"1", "0", ",", "5", "0">>, credit |-> 1],
     [amount |-> <<"2", ",", "0", "0">>, credit |-> 1],
     [amount |-> <<"2", ",", "0", "0">>, credit |-> 0],
     [amount |-> <<"a", "b", "c">>, credit |-> 1],
     [amount |-> Null, credit |-> 1]}

\* before the event was created, inside the lead window, after the event started
TxTimes == {0 - 1, 2, MaxTime + 2}

TxChoices ==
    {[amount |-> a.amount, credit |-> a.credit, created_at |-> t] :
        a \in Amounts, t \in TxTimes}

TxTime(t) == t.created_at

RevenueInscricaos ==
    {Inscricao(1, TheEvent, "Ok", 0, 0, <<>>), Inscricao(2, TheEvent, "Pendente", 0, 1, <<>>)}

RevenueDbs ==
    {[eventos |-> {Evento(TheEvent, OrgA, 0, start, 2), OtherEvento},
      inscricaos |-> RevenueInscricaos \cup HiddenInscricaos,
      transactions |-> {Transaction(i, 1 + (i % 2), txs[i].amount, txs[i].credit,
                                    IF i % 2 = 1 THEN "both" ELSE "organization_only",
                                    txs[i].created_at) : i \in 1..Len(txs)}
                       \cup HiddenTransactions(RevenueInscricaos),
      event_dynamic_fields |-> {}] :
        start \in Times, txs \in Ascending(TxChoices, MaxTx, TxTime)}

\* answer blobs
BlobEmpty == <<>>     \* no answer at all
BlobS == <<"1", ":", " ", "S">>
BlobM == <<"1", ":", " ", "M">>
BlobSRed == <<"1", ":", " ", "S", "\n", "2", ":", " ", "r", "e", "d">>     \* two fields, one line each
BlobTwice == <<"1", ":", " ", "S", "\n", "1", ":", " ", "S">>     \* the same field on two lines
BlobEmptyValue == <<"1", ":", "\n", "2", ":", " ", "r", "e", "d">>     \* an empty value, then another answer
BlobLetterKey == <<"x", "1", ":", " ", "M">>     \* a key that is not made only of digits
BlobNoColon == <<"1", " ", "S">>     \* a line without a colon
BlobUndefined == <<"1", ":", " ", "u", "n", "d", "e", "f", "i", "n", "e", "d">>     \* the answer is the word undefined
BlobPadded == <<"1", ":", " ", " ", "S", " ", "\n", "9", ":", " ", "z">>     \* padded value; field 9 is not a field of the event

\* n lines "1: <k>", k = 1..n: n distinct values of field 1 in one blob
RECURSIVE BlobMany(_)
BlobMany(n) ==
    IF n = 0 THEN <<>> ELSE BlobMany(n - 1) \o <<"1", ":", " ">> \o Str(n) \o <<"\n">>

Blobs ==
    {BlobEmpty, Null, BlobS, BlobM, BlobSRed, BlobTwice, BlobEmptyValue, BlobLetterKey,
     BlobNoColon, BlobUndefined, BlobPadded, BlobMany(19), BlobMany(20), BlobMany(21)}

\* the fields of the event: none, one, two, two with the same label
FieldSets ==
    {{},
     {Field(1, TheEvent, "Size")},
     {Field(1, TheEvent, "Size"), Field(2, TheEvent, "Color")},
     {Field(1, TheEvent, "Size"), Field(2, TheEvent, "Size")}}

DynamicDbs ==
    {[eventos |-> {Evento(TheEvent, OrgA, 0, 4, 2), OtherEvento},
      inscricaos |-> {Inscricao(i, TheEvent, "Ok", 0, i, blobs[i]) : i \in 1..Len(blobs)}
                     \cup HiddenInscricaos,
      transactions |-> HiddenTransactions({}),
      event_dynamic_fields |-> fields \cup {Field(7, OtherEvent, "Diet")}] :
        fields \in FieldSets, blobs \in SeqsUpTo(Blobs, MaxBlobs)}


----------------------------------------------------------------------------
(* csv_loader.py: CSVLoader.  Every refresh of the clock exports the four     *)
(* tables to their CSV files and then reads the files into the attributes.    *)

TableNames == {"events", "inscricaos", "transactions", "event_dynamic_fields"}

\* a table in memory: the refresh it was read from; events are sorted after the read
Loaded(cycle, sorted) == [cycle |-> cycle, sorted |-> sorted]

\* CSVLoader.__init__: load_csvs() has run on the files found, the thread starts
LoaderConstructed ==
    /\ files = [t \in TableNames |-> 0]
    /\ tables = [t \in TableNames |-> Loaded(0, TRUE)]
    /\ clock = [pc |-> "connect", cycle |-> 1]

At(pc) == clock.pc = pc
Goto(pc) == clock' = [clock EXCEPT !.pc = pc]

\* conn, cursor = connect_db()
Connect ==
    /\ At("connect")
    /\ Goto("export_events")
    /\ UNCHANGED <<files, tables, analyticsVars, decryptVars, serverVars, exportVars>>

\* export_events(cursor) ... export_event_dynamic_fields(cursor), in this order
ExportOrder == <<"events", "inscricaos", "transactions", "event_dynamic_fields">>
Export(k) ==
    /\ At("export_" \o ExportOrder[k])
    /\ files' = [files EXCEPT ![ExportOrder[k]] = clock.cycle]
    /\ Goto(IF k < Len(ExportOrder) THEN "export_" \o ExportOrder[k + 1] ELSE "close")
    /\ UNCHANGED <<tables, analyticsVars, decryptVars, serverVars, exportVars>>

\* cursor.close(); conn.close()
Close ==
    /\ At("close")
    /\ Goto("read_events")
    /\ UNCHANGED <<files, tables, analyticsVars, decryptVars, serverVars, exportVars>>

\* load_csvs: self.events = pd.read_csv(...)
ReadEvents ==
    /\ At("read_events")
    /\ tables' = [tables EXCEPT !["events"] = Loaded(files["events"], FALSE)]
    /\ Goto("sort_events")
    /\ UNCHANGED <<files, analyticsVars, decryptVars, serverVars, exportVars>>

\* load_csvs: self.events = self.events.sort_values(by='titulo', ...)
SortEvents ==
    /\ At("sort_events")
    /\ tables' = [tables EXCEPT !["events"].sorted = TRUE]
    /\ Goto("read_inscricaos")
    /\ UNCHANGED <<files, analyticsVars, decryptVars, serverVars, exportVars>>

\* load_csvs: the three other attributes, one assignment each
ReadOrder == <<"inscricaos", "transactions", "event_dynamic_fields">>
Read(k) ==
    /\ At("read_" \o ReadOrder[k])
    /\ tables' = [tables EXCEPT ![ReadOrder[k]] = Loaded(files[ReadOrder[k]], TRUE)]
    /\ Goto(IF k < Len(ReadOrder) THEN "read_" \o ReadOrder[k + 1] ELSE "sleep")
    /\ UNCHANGED <<files, analyticsVars, decryptVars, serverVars, exportVars>>

\* except Exception: a step of the try block raises, the refresh is given up
Except ==
    /\ ~ At("sleep")
    /\ Goto("sleep")
    /\ UNCHANGED <<files, tables, analyticsVars, decryptVars, serverVars, exportVars>>

\* time.sleep(self.interval_minutes * 60), then the next refresh
Sleep ==
    /\ At("sleep")
    /\ clock.cycle < MaxCycles
    /\ clock' = [pc |-> "connect", cycle |-> clock.cycle + 1]
    /\ UNCHANGED <<files, tables, analyticsVars, decryptVars, serverVars, exportVars>>


----------------------------------------------------------------------------
(* export_data.py: export_data, and database.py: get_data.  A call pages      *)
(* through the upstream rows by id and writes them to its CSV file.  A row is *)
(* its id and whether the query of export_data selects it (the WHERE clause   *)
(* on the organization); a file is the sequence of the ids of its rows.       *)

ExportFns == {"export_data", "get_data"}

NoFile == [exists |-> FALSE, rows |-> <<>>]

Row(id, matching) == [id |-> id, matching |-> matching]

\* no call is running and none was made
ExportIdle ==
    /\ source = {}
    /\ csv_files = [fn \in ExportFns |-> NoFile]
    /\ paging = [pc |-> "idle", fn |-> "none", batch_size |-> 1, last_id |-> 0,
                 first_write |-> TRUE, results |-> <<>>]
    /\ observed = [started_with |-> {}, resumed |-> FALSE]

\* df_existing[id_column].max()
MaxOf(rows) == CHOOSE m \in {rows[k] : k \in 1..Len(rows)} :
                   \A k \in 1..Len(rows) : rows[k] <= m

\* f"AND {table_alias}.{id_column} > {last_id}" if last_id > 0 else ""
last_id_filter_Inclusive(row_id, last_id) == IF last_id > 0 THEN row_id >= last_id ELSE TRUE

last_id_filter(row_id, last_id) == IF last_id > 0 THEN row_id > last_id ELSE TRUE

\* the rows the query of a function selects
Selected(fn, last_id) ==
    IF fn = "export_data"
    THEN {r \in source : r.matching /\ last_id_filter(r.id, last_id)}
    ELSE {r \in source : r.id > last_id}      \* WHERE {id_column} > {last_id}

\* ORDER BY id DESC LIMIT batch_size
OrderLimit_Descending(rows, batch_size) ==
    LET ordered == OrderById(rows)
        n == Min(Len(ordered), batch_size)
    IN  [k \in 1..n |-> ordered[Len(ordered) - n + k].id]

\* ORDER BY id ASC LIMIT batch_size, then fetchall(): the ids of the rows
OrderLimit(rows, batch_size) ==
    LET ordered == OrderById(rows)
    IN  [k \in 1..Min(Len(ordered), batch_size) |-> ordered[k].id]

\* an upstream insert: the new row takes an id above every id in use
Insert ==
    /\ \E id \in 1..MaxId, matching \in BOOLEAN :
           /\ \A r \in source : r.id < id
           /\ source' = source \cup {Row(id, matching)}
    /\ UNCHANGED <<csv_files, paging, observed, analyticsVars, decryptVars,
                   serverVars, loaderVars>>

\* the largest id of the file found, 0 without a file or without rows
FoundLastId(df_existing) ==
    IF df_existing.exists /\ df_existing.rows # <<>> THEN MaxOf(df_existing.rows) ELSE 0

\* export_data(...) up to the loop.  The two functions are scripts of their
\* own: a behaviour calls one of them, any number of times.
Call_export_data ==
    /\ paging.pc = "idle"
    /\ paging.fn \in {"none", "export_data"}
    /\ \E batch_size \in 1..MaxBatch :
           LET last_id == FoundLastId(csv_files["export_data"])
           IN  paging' = [pc |-> "execute", fn |-> "export_data",
                          batch_size |-> batch_size, last_id |-> last_id,
                          first_write |-> (last_id = 0), results |-> <<>>]
    /\ observed' = [started_with |-> {r.id : r \in {x \in source : x.matching}},
                    resumed |-> FoundLastId(csv_files["export_data"]) > 0]
    /\ UNCHANGED <<source, csv_files, analyticsVars, decryptVars, serverVars, loaderVars>>

\* get_data(...) up to the loop
Call_get_data ==
    /\ paging.pc = "idle"
    /\ paging.fn \in {"none", "get_data"}
    /\ \E batch_size \in 1..MaxBatch :
           paging' = [pc |-> "execute", fn |-> "get_data", batch_size |-> batch_size,
                      last_id |-> 0, first_write |-> TRUE, results |-> <<>>]
    /\ observed' = [started_with |-> {r.id : r \in source}, resumed |-> FALSE]
    /\ UNCHANGED <<source, csv_files, analyticsVars, decryptVars, serverVars, loaderVars>>

\* cursor.execute(paginated_query); results = cursor.fetchall();
\* if not results: break
Execute ==
    /\ paging.pc = "execute"
    /\ LET results == OrderLimit(Selected(paging.fn, paging.last_id), paging.batch_size)
       IN  paging' = [paging EXCEPT !.results = results,
                                    !.pc = IF results = <<>> THEN "idle" ELSE "to_csv"]
    /\ UNCHANGED <<source, csv_files, observed, analyticsVars, decryptVars,
                   serverVars, loaderVars>>

\* df.to_csv(full_path, mode="w") the first time, mode="a" afterwards;
\* last_id = df.iloc[-1][id_column]
ToCsv ==
    /\ paging.pc = "to_csv"
    /\ csv_files' =
           [csv_files EXCEPT ![paging.fn] =
               [exists |-> TRUE,
                rows |-> IF paging.first_write THEN paging.results
                         ELSE csv_files[paging.fn].rows \o paging.results]]
    /\ paging' = [paging EXCEPT !.first_write = FALSE,
                                !.last_id = paging.results[Len(paging.results)],
                                !.pc = "execute"]
    /\ UNCHANGED <<source, observed, analyticsVars, decryptVars, serverVars, loaderVars>>

----------------------------------------------------------------------------
(* The views of one event, each computed once, over every input *)

NoResults ==
    [inscriptions |-> NoResult, revenue |-> NoResult, dynamic |-> NoResult,
     details |-> NoResult]

\* the token and the outcome of a specification that decrypts nothing
IdleToken == [dot |-> FALSE]
NoOutcomes == [crypto_utils |-> NoResult, utils_crypto |-> NoResult]

InitAnalytics ==
    /\ \/ db \in InscriptionsDbs /\ now \in {3, MaxTime + 1}
       \/ db \in RevenueDbs /\ now = 3
       \/ db \in DynamicDbs /\ now = 3
    /\ result = NoResults
    /\ token = IdleToken
    /\ outcome = NoOutcomes
    /\ requests = <<>>
    /\ analytics_org_id = OrgA
    /\ loader_org_id = OrgA
    /\ LoaderConstructed
    /\ ExportIdle

RunInscriptions ==
    /\ result.inscriptions = NoResult
    /\ result.details = NoResult
    /\ result' = [result EXCEPT !.inscriptions =
                     InscriptionsAnalytics_get_event_inscriptions(TheEvent)]
    /\ UNCHANGED <<db, now, decryptVars, serverVars, loaderVars, exportVars>>

RunRevenue ==
    /\ result.revenue = NoResult
    /\ result.details = NoResult
    /\ result' = [result EXCEPT !.revenue = RevenueAnalytics_get_event_revenue(TheEvent)]
    /\ UNCHANGED <<db, now, decryptVars, serverVars, loaderVars, exportVars>>

RunDynamicFields ==
    /\ result.dynamic = NoResult
    /\ result.details = NoResult
    /\ result' = [result EXCEPT !.dynamic =
                     DynamicFieldsAnalytics_get_dynamic_fields_distribution(TheEvent)]
    /\ UNCHANGED <<db, now, decryptVars, serverVars, loaderVars, exportVars>>

\* the former engine, in place of the three views
RunDetails ==
    /\ result = NoResults
    /\ result' = [result EXCEPT !.details = get_event_details(TheEvent)]
    /\ UNCHANGED <<db, now, decryptVars, serverVars, loaderVars, exportVars>>

NextAnalytics == RunInscriptions \/ RunRevenue \/ RunDynamicFields \/ RunDetails

SpecAnalytics == InitAnalytics /\ [][NextAnalytics]_vars

----------------------------------------------------------------------------
(* decrypt applied to every token, by both implementations *)

EmptyDb == [eventos |-> {}, inscricaos |-> {}, transactions |-> {},
            event_dynamic_fields |-> {}]

InitDecrypt ==
    /\ token \in Tokens
    /\ outcome = NoOutcomes
    /\ db = EmptyDb
    /\ now = 0
    /\ result = NoResults
    /\ requests = <<>>
    /\ analytics_org_id = OrgA
    /\ loader_org_id = OrgA
    /\ LoaderConstructed
    /\ ExportIdle

RunDecrypt ==
    /\ outcome.crypto_utils = NoResult
    /\ outcome' = [outcome EXCEPT !.crypto_utils = decrypt(token)]
    /\ UNCHANGED <<token, analyticsVars, serverVars, loaderVars, exportVars>>

RunUtilsDecrypt ==
    /\ outcome.utils_crypto = NoResult
    /\ outcome' = [outcome EXCEPT !.utils_crypto = utils_decrypt(token)]
    /\ UNCHANGED <<token, analyticsVars, serverVars, loaderVars, exportVars>>

NextDecrypt == RunDecrypt \/ RunUtilsDecrypt

SpecDecrypt == InitDecrypt /\ [][NextDecrypt]_vars

----------------------------------------------------------------------------
(* main.py: the routes, served through the one EventAnalytics instance.        *)
(* The async routes run on the event loop, one at a time and without a point   *)
(* of suspension; the route declared with def runs on a thread of the pool,    *)
(* in parallel with the event loop and with other such threads.                *)

AsyncRoutes == {"events", "inscriptions", "revenue"}
ThreadRoutes == {"dynamic"}
EventRoutes == {"inscriptions", "revenue", "dynamic"}

\* Hashids: an injective encoding of the ids; text that encodes nothing decodes to 0
encode_id(real_id) == <<"hashid", real_id>>
GarbageId == <<"garbage", 0>>
decode_id(encoded_id) == IF encoded_id[1] = "hashid" THEN encoded_id[2] ELSE 0

\* int(text) of the text decrypt returned
IntOf(text) ==
    IF text # <<>> /\ \A i \in 1..Len(text) : text[i] \in Digit
    THEN Return(DigitsValue(text))
    ELSE Raise("ValueError")

Ok(body) == [kind |-> "ok", status |-> 200, body |-> body]
ServerError(e) == [kind |-> "error", status |-> 500, body |-> e]
NoResponse == [kind |-> "none", status |-> 0, body |-> <<>>]

\* EventAnalytics.get_events_summary, then the ids encoded by get_events
get_events_summary ==
    LET events_df == loader_get_events_for_org
    IN  [code \in {encode_id(events_df[i].id) : i \in 1..Len(events_df)} |->
            LET row == events_df[CHOOSE i \in 1..Len(events_df) :
                                     events_df[i].id = decode_id(code)]
            IN  [id |-> code, name |-> row.name, created_at |-> row.created_at,
                 start_date |-> row.start_date,
                 target_inscriptions |-> row.target_inscriptions]]

\* the view of an event route; inscriptions and revenue put the encoded id back
EventView(route, encoded_id) ==
    LET real_event_id == decode_id(encoded_id)
    IN  CASE route = "dynamic" ->
                 DynamicFieldsAnalytics_get_dynamic_fields_distribution(real_event_id)
          [] route = "inscriptions" ->
                 LET v == InscriptionsAnalytics_get_event_inscriptions(real_event_id)
                 IN  IF v.kind = "ok" THEN [v EXCEPT !.id = encoded_id] ELSE v
          [] route = "revenue" ->
                 LET v == RevenueAnalytics_get_event_revenue(real_event_id)
                 IN  IF v.kind = "ok" THEN [v EXCEPT !.id = encoded_id] ELSE v

\* org_id = int(decrypt(token)); real_event_id = decode_id(event_id)
Start(r) ==
    LET req == requests[r]
        d == decrypt(req.token)
        n == IF d.kind = "return" THEN IntOf(d.value) ELSE d
    IN  /\ req.pc = "start"
        /\ req.route \in AsyncRoutes =>
               \A o \in DOMAIN requests :
                   requests[o].route \in AsyncRoutes => requests[o].pc \in {"start", "done"}
        /\ requests' = [requests EXCEPT ![r] =
               IF n.kind = "raise"
               THEN [req EXCEPT !.pc = "done", !.response = ServerError(n.exc)]
               ELSE [req EXCEPT !.pc = "set_org_id", !.org_id = n.value]]
        /\ UNCHANGED <<analytics_org_id, loader_org_id, analyticsVars, decryptVars, loaderVars, exportVars>>

\* set_org_id, first assignment: self.org_id = org_id
SetOrgId(r) ==
    /\ requests[r].pc = "set_org_id"
    /\ analytics_org_id' = requests[r].org_id
    /\ requests' = [requests EXCEPT ![r].pc = "set_loader_org_id"]
    /\ UNCHANGED <<loader_org_id, analyticsVars, decryptVars, loaderVars, exportVars>>

\* a loader that takes an organization only while it still has its default
SetLoaderOrgId_Once(r) ==
    /\ requests[r].pc = "set_loader_org_id"
    /\ loader_org_id' = IF loader_org_id = OrgA THEN requests[r].org_id ELSE loader_org_id
    /\ requests' = [requests EXCEPT ![r].pc = "query"]
    /\ UNCHANGED <<analytics_org_id, analyticsVars, decryptVars, loaderVars, exportVars>>

\* set_org_id, second assignment: self.loader.org_id = org_id
SetLoaderOrgId(r) ==
    /\ requests[r].pc = "set_loader_org_id"
    /\ loader_org_id' = requests[r].org_id
    /\ requests' = [requests EXCEPT ![r].pc = "query"]
    /\ UNCHANGED <<analytics_org_id, analyticsVars, decryptVars, loaderVars, exportVars>>

\* the query of the route and its response
Query(r) ==
    LET req == requests[r]
        view == EventView(req.route, req.event_id)
    IN  /\ req.pc = "query"
        /\ requests' = [requests EXCEPT ![r] =
               [req EXCEPT !.pc = "done",
                           !.response =
                               IF req.route = "events" THEN Ok(get_events_summary)
                               ELSE IF view.kind = "raise" THEN ServerError(view.exc)
                               ELSE Ok(view)]]
        /\ UNCHANGED <<analytics_org_id, loader_org_id, analyticsVars, decryptVars, loaderVars, exportVars>>

\* the tokens of the requests: one of each organization, one whose plaintext
\* has no org_id, one with a corrupted ciphertext
ValidToken(org) ==
    [dot |-> TRUE, raw |-> <<"x">>, payload_b64 |-> TRUE, key_b64 |-> TRUE, key |-> "rsa",
     rsa_ok |-> TRUE, aes_ok |-> TRUE, utf8 |-> TRUE, form |-> "dict_with_org_id",
     org_id |-> org]
NoOrgIdToken == [ValidToken(OrgA) EXCEPT !.form = "dict_without_org_id"]
CorruptToken == [ValidToken(OrgA) EXCEPT !.utf8 = FALSE]

RequestTokens == {ValidToken(OrgA), ValidToken(OrgB), NoOrgIdToken, CorruptToken}

Request(route, tok, encoded_id) ==
    [route |-> route, token |-> tok, event_id |-> encoded_id, pc |-> "start",
     org_id |-> 0, response |-> NoResponse]

RequestInputs ==
    {Request("events", tok, GarbageId) : tok \in RequestTokens}
    \cup {Request(route, tok, code) :
             route \in EventRoutes, tok \in RequestTokens,
             code \in {encode_id(TheEvent), encode_id(OtherEvent), GarbageId}}

\* two organizations, one event each, with registrations, transactions and fields
ServerDb ==
    [eventos |-> {Evento(TheEvent, OrgA, 0, 4, 2), Evento(OtherEvent, OrgB, 1, 5, 3)},
     inscricaos |-> {Inscricao(1, TheEvent, "Ok", 0, 1, BlobS),
                     Inscricao(2, TheEvent, "Pendente", 0, 2, BlobM),
                     Inscricao(3, OtherEvent, "Ok", 0, 2, BlobSRed),
                     Inscricao(4, OtherEvent, "Ok", 0, 3, BlobEmpty)},
     transactions |-> {Transaction(1, 1, <<"1", "0", ",", "5", "0">>, 1, "both", 1),
                       Transaction(2, 3, <<"2", ",", "0", "0">>, 1, "both", 2)},
     event_dynamic_fields |-> {Field(1, TheEvent, "Size"), Field(2, OtherEvent, "Color")}]

InitServer ==
    /\ requests \in [1..MaxRequests -> RequestInputs]
    /\ analytics_org_id = OrgA
    /\ loader_org_id = OrgA
    /\ db = ServerDb
    /\ now = 3
    /\ result = NoResults
    /\ token = IdleToken
    /\ outcome = NoOutcomes
    /\ LoaderConstructed
    /\ ExportIdle

NextServer ==
    \/ \E r \in 1..MaxRequests : Start(r)
    \/ \E r \in 1..MaxRequests : SetOrgId(r)
    \/ \E r \in 1..MaxRequests : SetLoaderOrgId(r)
    \/ \E r \in 1..MaxRequests : Query(r)

SpecServer == InitServer /\ [][NextServer]_vars

\* the same routes served one request after the other: the first request served
\* is kept, with the request served before the current one and the current one
SequentialInputs ==
    {Request("events", ValidToken(org), GarbageId) : org \in {OrgA, OrgB}}
    \cup {Request(route, ValidToken(org), encode_id(id)) :
             route \in EventRoutes, org \in {OrgA, OrgB}, id \in {TheEvent, OtherEvent}}

Arrive ==
    /\ \A r \in DOMAIN requests : requests[r].pc = "done"
    /\ \E req \in SequentialInputs :
           requests' = IF Len(requests) < 3 THEN Append(requests, req)
                       ELSE <<requests[1], requests[3], req>>
    /\ UNCHANGED <<analytics_org_id, loader_org_id, analyticsVars, decryptVars, loaderVars, exportVars>>

InitSequential ==
    /\ requests = <<>>
    /\ analytics_org_id = OrgA
    /\ loader_org_id = OrgA
    /\ db = ServerDb
    /\ now = 3
    /\ result = NoResults
    /\ token = IdleToken
    /\ outcome = NoOutcomes
    /\ LoaderConstructed
    /\ ExportIdle

NextSequential ==
    \/ Arrive
    \/ \E r \in DOMAIN requests : Start(r)
    \/ \E r \in DOMAIN requests : SetOrgId(r)
    \/ \E r \in DOMAIN requests : SetLoaderOrgId(r)
    \/ \E r \in DOMAIN requests : Query(r)

SpecSequential == InitSequential /\ [][NextSequential]_vars

\* the clock of the CSV loader, on its own
InitLoader ==
    /\ LoaderConstructed
    /\ ExportIdle
    /\ db = EmptyDb
    /\ now = 0
    /\ result = NoResults
    /\ token = IdleToken
    /\ outcome = NoOutcomes
    /\ requests = <<>>
    /\ analytics_org_id = OrgA
    /\ loader_org_id = OrgA

NextLoader ==
    \/ Connect
    \/ \E k \in 1..Len(ExportOrder) : Export(k)
    \/ Close
    \/ ReadEvents
    \/ SortEvents
    \/ \E k \in 1..Len(ReadOrder) : Read(k)
    \/ Except
    \/ Sleep

SpecLoader == InitLoader /\ [][NextLoader]_vars

----------------------------------------------------------------------------
(* The paged exports, over every interleaving of calls and upstream inserts *)

InitExport ==
    /\ ExportIdle
    /\ LoaderConstructed
    /\ db = EmptyDb
    /\ now = 0
    /\ result = NoResults
    /\ token = IdleToken
    /\ outcome = NoOutcomes
    /\ requests = <<>>
    /\ analytics_org_id = OrgA
    /\ loader_org_id = OrgA

NextExport ==
    \/ Insert
    \/ Call_export_data
    \/ Call_get_data
    \/ Execute
    \/ ToCsv

SpecExport == InitExport /\ [][NextExport]_vars

\* a call that runs keeps running: nothing else shares its thread
SpecExportFair == SpecExport /\ WF_vars(Execute) /\ WF_vars(ToCsv)

----------------------------------------------------------------------------
(* What the claims speak of, stated from the tables and not from the views *)

TheEventRow == CHOOSE e \in db.eventos : e.id = TheEvent

\* max_lead = days_between(event.start, event.created)
MaxLead == Days(TheEventRow.data_inicio - TheEventRow.created_at)

\* the registrations of the event, and their number
Registrations == CountedInscricaos(TheEvent)
TotalRegistrations == Cardinality(Registrations)

LeadDay(created_at) == Days(TheEventRow.data_inicio - created_at)

\* the revenue-eligible transactions of the event
EligibleTransactions ==
    {t \in db.transactions : /\ t.enrollment_id \in {i.id : i \in Registrations}
                             /\ t.counts_for \in RevenueCountsFor}

\* an amount text read with the decimal comma as the decimal point: digits, then
\* at most one ',' or '.' followed by digits; in cents, or -1 for no amount
AmountCents(text) ==
    LET marks == {i \in 1..Len(text) : text[i] \in {",", "."}}
        mark == IF marks = {} THEN Len(text) + 1 ELSE CHOOSE i \in marks : TRUE
        whole == SubSeq(text, 1, mark - 1)
        part == SubSeq(text, mark + 1, Len(text))
    IN  IF /\ text # Null
           /\ Cardinality(marks) <= 1
           /\ \A i \in 1..Len(text) : text[i] \in Digit \cup {",", "."}
           /\ whole \o part # <<>>
        THEN DigitsValue(whole) * 100 + DigitsValue(SubSeq(part \o <<"0", "0">>, 1, 2))
        ELSE 0 - 1

Parseable(t) == AmountCents(t.amount) >= 0

\* the signed amount of a transaction in cents; a NULL or unparseable amount is 0
SignedCents(t) ==
    IF ~Parseable(t) THEN 0
    ELSE IF t.credit = 1 THEN AmountCents(t.amount) ELSE 0 - AmountCents(t.amount)

\* the sum of the signed amounts of a set of transactions
RECURSIVE SignedSum(_)
SignedSum(S) ==
    IF S = {} THEN 0
    ELSE LET x == CHOOSE y \in S : TRUE IN SignedCents(x) + SignedSum(S \ {x})

NonDecreasing(s) == \A i \in 1..(Len(s) - 1) : s[i] <= s[i + 1]

\* the fields of the event and the answers the blobs hold for a field
EventFields == {f \in db.event_dynamic_fields : f.evento_id = TheEvent}

AnswersOf(i, f) ==
    LET text == IF i.serial_event_dynamic_fields = Null THEN <<>>
                ELSE i.serial_event_dynamic_fields
        found == extractall(text, 1)
    IN  {found[k].field_value : k \in {n \in 1..Len(found) : found[n].field_id = Str(f.id)}}

\* the distinct values of a field, 'undefined' being the value of a registrant
\* who supplied no answer for it
DistinctValues(f) ==
    UNION {AnswersOf(i, f) : i \in Registrations}
    \cup (IF \E i \in Registrations : AnswersOf(i, f) = {} THEN {Undefined} ELSE {})

----------------------------------------------------------------------------
(* C4 *)

\* C4 as claimed: for every event and every non-empty set of registrations the
\* cumulative registration series is non-decreasing from its first to its last
\* element and its final bucket equals the number of registrations.
C4_SeriesEndsAtTotal ==
    LET r == result.inscriptions
        series == r.chartDataInscriptions.inscriptions
    IN  (r.kind = "ok" /\ TotalRegistrations > 0) =>
            /\ series # <<>>
            /\ NonDecreasing(series)
            /\ series[Len(series)] = TotalRegistrations

\* C4 amended: the same for every event that is not created after its start day
\* (max_lead >= 0), where the series has max_lead + 1 buckets; for an event with
\* max_lead < 0 the series is empty and has no final bucket.
C4_SeriesEndsAtTotal_Amended ==
    LET r == result.inscriptions
        series == r.chartDataInscriptions.inscriptions
    IN  (r.kind = "ok" /\ TotalRegistrations > 0) =>
            IF MaxLead >= 0
            THEN /\ Len(series) = MaxLead + 1
                 /\ NonDecreasing(series)
                 /\ series[Len(series)] = TotalRegistrations
            ELSE series = <<>>

\* a series that grows before its last bucket, with a registration made after the
\* event started, which only the forced last bucket counts
C4_Witness ==
    LET r == result.inscriptions
        series == r.chartDataInscriptions.inscriptions
    IN  /\ r.kind = "ok"
        /\ TotalRegistrations >= 2
        /\ MaxLead >= 1
        /\ \E i \in Registrations : LeadDay(i.created_at) < 0
        /\ \E k \in 1..(Len(series) - 1) : 0 < series[k] /\ series[k] < TotalRegistrations

----------------------------------------------------------------------------
(* C5 *)

\* C5 as claimed: for every event with a non-empty transaction set, totalRevenue
\* is the sum of the signed amounts of all the event's transactions and is the
\* value of the revenue series at lead day 0, whatever the lead days are.  Stated
\* for the events that start on or after their day of creation, the ones whose
\* series has a lead day 0.
C5_TotalIsSeriesAtDayZero ==
    LET r == result.revenue
        days == r.chartDataRevenue.remaining_days
    IN  (r.kind = "ok" /\ EligibleTransactions # {} /\ MaxLead >= 0) =>
            /\ r.totalRevenue = SignedSum(EligibleTransactions)
            /\ \E k \in 1..Len(days) :
                   /\ days[k] = 0
                   /\ r.chartDataRevenue.revenue[k] = r.totalRevenue

----------------------------------------------------------------------------
(* C6 *)

\* the structural and cryptographic defects a token can have
Defective(t) ==
    \/ ~t.dot \/ ~t.payload_b64 \/ ~t.key_b64 \/ t.key # "rsa"
    \/ ~t.rsa_ok \/ ~t.aes_ok \/ ~t.utf8 \/ t.form # "dict_with_org_id"

\* C6 as claimed: decrypt never raises to its caller; for every token with a
\* structural or cryptographic defect it returns the empty value.
C6_DecryptNeverRaises ==
    \A impl \in {"crypto_utils", "utils_crypto"} :
        outcome[impl] # NoResult =>
            /\ outcome[impl].kind = "return"
            /\ Defective(token) => outcome[impl].value = EmptyString

----------------------------------------------------------------------------
(* C9 *)

\* C9: for an existing event with zero registrations the inscriptions view is an
\* empty series with currentInscriptions 0 and averageInscriptions 0.0; with zero
\* transactions the revenue view is an empty series with ticketPrice 0.0 and
\* totalRevenue 0.0; neither query raises.
C9_EmptyViews ==
    /\ (result.inscriptions # NoResult /\ TotalRegistrations = 0) =>
           /\ result.inscriptions.kind = "ok"
           /\ result.inscriptions.chartDataInscriptions =
                  [remaining_days |-> <<>>, inscriptions |-> <<>>]
           /\ result.inscriptions.currentInscriptions = 0
           /\ result.inscriptions.averageInscriptions = 0
    /\ (result.revenue # NoResult /\ EligibleTransactions = {}) =>
           /\ result.revenue.kind = "ok"
           /\ result.revenue.chartDataRevenue = [remaining_days |-> <<>>, revenue |-> <<>>]
           /\ result.revenue.ticketPrice = Num(0)
           /\ result.revenue.totalRevenue = 0

\* both views computed for an event whose only registrations and transactions
\* are rows the queries leave out
C9_Witness ==
    /\ result.inscriptions # NoResult
    /\ result.revenue # NoResult
    /\ TotalRegistrations = 0
    /\ EligibleTransactions = {}
    /\ \E i \in db.inscricaos : i.evento_id = TheEvent
    /\ db.transactions # {}

----------------------------------------------------------------------------
(* C10 *)

\* C10 as claimed: a field's label is a key of distribution if and only if the
\* field has more than 1 and at most 20 distinct values, 'undefined' counted as a
\* value, and labels lists every field of the event.
C10_KeyIffChartable ==
    LET r == result.dynamic
    IN  r.kind = "ok" =>
            /\ \A f \in EventFields :
                   (f.label \in DOMAIN r.distribution) <=>
                       (Cardinality(DistinctValues(f)) > 1
                            /\ Cardinality(DistinctValues(f)) <= 20)
            /\ Len(r.labels) = Cardinality(EventFields)
            /\ \A f \in EventFields : \E k \in 1..Len(r.labels) : r.labels[k] = f.label

----------------------------------------------------------------------------
(* C1, C2, C7, C8: the requests *)

Done == {r \in DOMAIN requests : requests[r].pc = "done"}

\* the organization a request's token names, 0 when it names none
TokenOrg(r) ==
    LET d == decrypt(requests[r].token)
        n == IF d.kind = "return" THEN IntOf(d.value) ELSE d
    IN  IF n.kind = "return" THEN n.value ELSE 0

\* the event row a request's event id decodes to, as a set
RequestedEvent(r) == {e \in db.eventos : e.id = decode_id(requests[r].event_id)}

\* the view of an event with no registrations, transactions or fields
EmptyView(route, encoded_id) ==
    CASE route = "dynamic" -> [kind |-> "ok", labels |-> <<>>, distribution |-> <<>>]
      [] route = "inscriptions" ->
             [kind |-> "ok", id |-> encoded_id,
              chartDataInscriptions |-> [remaining_days |-> <<>>, inscriptions |-> <<>>],
              currentInscriptions |-> 0, averageInscriptions |-> 0,
              targetInscriptions |-> 0]
      [] route = "revenue" -> [EmptyRevenue(0) EXCEPT !.id = encoded_id]

\* C1 as claimed: a request of an organization for an event of another
\* organization gets none of that event's registrations, transactions or fields:
\* its response is an error or the empty view.
C1_EventQueriesScoped ==
    \A r \in Done :
        LET req == requests[r]
        IN  (/\ req.route \in EventRoutes
             /\ TokenOrg(r) # 0
             /\ \E e \in RequestedEvent(r) : e.igreja_id # TokenOrg(r))
            => \/ req.response.kind # "ok"
               \/ req.response.body = EmptyView(req.route, req.event_id)

\* C2 as claimed: every events list served lists only events of the organization
\* its token names, whatever other requests run at the same time.
C2_OwnOrganizationOnly ==
    \A r \in Done :
        LET req == requests[r]
        IN  (req.route = "events" /\ req.response.kind = "ok") =>
                \A code \in DOMAIN req.response.body :
                    \A e \in db.eventos :
                        e.id = decode_id(code) => e.igreja_id = TokenOrg(r)

\* C7 as claimed: when decrypt yields the empty organization id the events
\* request completes with an empty list.
C7_EmptyOrgEmptyList ==
    \A r \in Done :
        LET req == requests[r]
        IN  (req.route = "events" /\ decrypt(req.token) = Return(EmptyString)) =>
                /\ req.response.kind = "ok"
                /\ DOMAIN req.response.body = {}

\* C8 as claimed: a request for an event id that is not an event of the
\* caller's organization is answered NotFound.
C8_NotFoundForUnresolved ==
    \A r \in Done :
        LET req == requests[r]
        IN  (/\ req.route \in EventRoutes
             /\ TokenOrg(r) # 0
             /\ ~ \E e \in RequestedEvent(r) : e.igreja_id = TokenOrg(r))
            => req.response.kind = "not_found"

----------------------------------------------------------------------------
(* C3: the refresh of the CSV loader *)

\* C3 as claimed: at every moment of a refresh the four tables in memory belong
\* to one snapshot: never some to the new refresh and others to the old one.
C3_RefreshIsAtomic ==
    \A t1, t2 \in TableNames : tables[t1].cycle = tables[t2].cycle

----------------------------------------------------------------------------
(* C11 *)

\* the registrants of the event who supplied no answer for a field
Unanswered(f) == {i \in Registrations : AnswersOf(i, f) = {}}

\* the fields whose label no other field of the event carries
SoleLabelled == {f \in EventFields : \A g \in EventFields : g.label = f.label => g = f}

\* C11 as claimed: for every field in distribution the 'undefined' count is the
\* number of registrants who supplied no answer for the field, and the key
\* 'undefined' is present only when that number is greater than 0, also when a
\* blob names the field on more than one line.
C11_UndefinedCountsUnanswered ==
    LET r == result.dynamic
    IN  r.kind = "ok" =>
            \A f \in SoleLabelled :
                f.label \in DOMAIN r.distribution =>
                    LET counts == r.distribution[f.label]
                    IN  IF Unanswered(f) = {}
                        THEN Undefined \notin DOMAIN counts
                        ELSE /\ Undefined \in DOMAIN counts
                             /\ counts[Undefined] = Cardinality(Unanswered(f))

----------------------------------------------------------------------------
(* C12 *)

\* C12: totalRevenue is the sum over the event's revenue-eligible transactions of
\* the signed amount, the amount of a credit and minus the amount of a debit,
\* read with the decimal comma as the decimal point.
C12_TotalIsSignedSum ==
    LET r == result.revenue
    IN  r.kind = "ok" => r.totalRevenue = SignedSum(EligibleTransactions)

\* the credit of "10,50" and the debit of "2,00" give 8.50
C12_Witness ==
    /\ result.revenue.kind = "ok"
    /\ {[amount |-> t.amount, credit |-> t.credit] : t \in EligibleTransactions}
           = {[amount |-> <<"1", "0", ",", "5", "0">>, credit |-> 1],
              [amount |-> <<"2", ",", "0", "0">>, credit |-> 0]}
    /\ Cardinality(EligibleTransactions) = 2
    /\ result.revenue.totalRevenue = 850

----------------------------------------------------------------------------
(* C13 *)

\* the eligible transactions whose amount is a text that is no number
Unparseable == {t \in EligibleTransactions : t.amount # Null /\ ~Parseable(t)}

\* the credit transactions that carry an amount text, the terms of the mean
CreditTerms == {t \in EligibleTransactions : t.credit = 1 /\ t.amount # Null}

\* the mean of the normalized amounts of a non-empty set of transactions, to the cent
MeanCents(S) == RoundDiv(SignedSum(S), Cardinality(S), 1)

\* the signed amounts accrued from lead day max_lead down to lead day d
AccruedFrom(d) ==
    SignedSum({t \in EligibleTransactions : LeadDay(t.created_at) \in d..MaxLead})

\* C13 as claimed: a transaction whose amount text is no number has the amount
\* 0.0 in totalRevenue, in every bucket of the series and in the ticket-price
\* mean, where it is a term 0.0, and the computation does not fail.
C13_UnparseableIsZero ==
    LET r == result.revenue
    IN  (r # NoResult /\ Unparseable # {}) =>
            /\ r.kind = "ok"
            /\ r.totalRevenue = SignedSum(EligibleTransactions)
            /\ \A k \in 1..Len(r.chartDataRevenue.revenue) :
                   r.chartDataRevenue.revenue[k] =
                       AccruedFrom(r.chartDataRevenue.remaining_days[k])
            /\ r.ticketPrice =
                   Num(IF CreditTerms = {} THEN 0 ELSE MeanCents(CreditTerms))

----------------------------------------------------------------------------
(* C14 *)

SameQuery(a, b) == a.route = b.route /\ a.token = b.token /\ a.event_id = b.event_id

\* C14: a query run again on the unchanged dataset at the same time returns what
\* its first run returned, whatever query was served in between.
C14_RerunIsIdentical ==
    (/\ Len(requests) >= 2
     /\ requests[Len(requests)].pc = "done"
     /\ SameQuery(requests[Len(requests)], requests[1]))
    => requests[Len(requests)].response = requests[1].response

\* the events list of one organization served, then a query of the other
\* organization, then the same events list again
C14_Witness ==
    /\ Len(requests) = 3
    /\ requests[3].pc = "done"
    /\ SameQuery(requests[3], requests[1])
    /\ requests[1].route = "events"
    /\ requests[2].token # requests[1].token
    /\ requests[2].response.kind = "ok"
    /\ DOMAIN requests[3].response.body # {}

----------------------------------------------------------------------------
(* C15 .. C20: the figures of the registration and revenue views *)

\* floor_bound = max(0, days_between(event.start, now)) before the start, else 0
FloorBound ==
    IF now < TheEventRow.data_inicio THEN Max(0, Days(TheEventRow.data_inicio - now)) ELSE 0

\* the days hi, hi - 1, ..., lo
DescendingDays(hi, lo) == IF hi < lo THEN <<>> ELSE [i \in 1..(hi - lo + 1) |-> hi + 1 - i]

\* the days lo, lo + 1, ..., hi
AscendingDays(lo, hi) == IF hi < lo THEN <<>> ELSE [i \in 1..(hi - lo + 1) |-> lo + i - 1]

\* value is num / den to the nearest unit of 1 / scale
WithinHalf(value, num, den, scale) ==
    LET diff == value * den - num * scale
    IN  2 * (IF diff < 0 THEN 0 - diff ELSE diff) <= den

\* C15 as claimed: the lead days of the registration series run down by steps of
\* 1 from max_lead to floor_bound.
C15_SeriesDomain ==
    LET r == result.inscriptions
    IN  (r.kind = "ok" /\ TotalRegistrations > 0) =>
            r.chartDataInscriptions.remaining_days = DescendingDays(MaxLead, FloorBound)

\* C16 as claimed: at every lead day d of the registration series but the last,
\* the value is the number of registrations whose lead day is >= d, those with a
\* lead day above max_lead included.
C16_CumulativeCounts ==
    LET r == result.inscriptions
        days == r.chartDataInscriptions.remaining_days
    IN  (r.kind = "ok" /\ TotalRegistrations > 0) =>
            \A k \in 1..(Len(days) - 1) :
                r.chartDataInscriptions.inscriptions[k] =
                    Cardinality({i \in Registrations : LeadDay(i.created_at) >= days[k]})

\* C17: the revenue series lists the lead days 0..max_lead in ascending order and
\* its bucket at d is the sum of the signed amounts of the transactions whose lead
\* day lies between d and max_lead.
C17_RevenueBuckets ==
    LET r == result.revenue
        days == r.chartDataRevenue.remaining_days
    IN  (r.kind = "ok" /\ EligibleTransactions # {}) =>
            /\ days = AscendingDays(0, MaxLead)
            /\ \A k \in 1..Len(days) : r.chartDataRevenue.revenue[k] = AccruedFrom(days[k])

\* a series that decreases from one lead day to the next lower one: a debit
C17_Witness ==
    LET r == result.revenue
    IN  /\ r.kind = "ok"
        /\ \E k \in 1..(Len(r.chartDataRevenue.revenue) - 1) :
               /\ r.chartDataRevenue.revenue[k] < r.chartDataRevenue.revenue[k + 1]
               /\ r.chartDataRevenue.revenue[k + 1] > 0
               /\ r.chartDataRevenue.revenue[k] > 0

\* elapsed_days = days_between(min(now, event.start), event.created)
ElapsedDays ==
    Days(Min(now, TheEventRow.data_inicio) - TheEventRow.created_at)

\* C18: averageInscriptions is the registration count divided by elapsed_days, to
\* the two decimals returned, and 0.0 whenever elapsed_days <= 0; in the view
\* served and in the details of the former engine.
C18_AveragePerDay ==
    \A r \in {result.inscriptions, result.details} :
        r.kind = "ok" =>
            IF ElapsedDays <= 0 THEN r.averageInscriptions = 0
            ELSE WithinHalf(r.averageInscriptions, TotalRegistrations, ElapsedDays, 100)

\* registrations of an event that has not started yet, a day or more after its
\* creation: the average counts the days up to now
C18_Witness ==
    /\ result.inscriptions.kind = "ok"
    /\ TotalRegistrations > 0
    /\ now < TheEventRow.data_inicio
    /\ ElapsedDays > 0
    /\ ElapsedDays < MaxLead
    /\ result.inscriptions.averageInscriptions > 0

\* days_remaining = max(0, days_between(event.start, now))
DaysRemaining == Max(0, Days(TheEventRow.data_inicio - now))

C20_TicketPrice ==
    LET r == result.revenue
    IN  r.kind = "ok" =>
            /\ ~r.ticketPrice.nan
            /\ IF CreditTerms = {} THEN r.ticketPrice.v = 0
               ELSE WithinHalf(r.ticketPrice.v, SignedSum(CreditTerms),
                               Cardinality(CreditTerms), 1)

----------------------------------------------------------------------------
(* C21 .. C23: the lines of the answer blobs *)

\* the lines of a text, split at the newlines
RECURSIVE LinesOf(_)
LinesOf(s) ==
    LET e == LineEnd(s, 1)
    IN  IF e > Len(s) THEN <<s>>
        ELSE <<SubSeq(s, 1, e - 1)>> \o LinesOf(SubSeq(s, e + 1, Len(s)))

\* the lines of the blob of a registrant
BlobLines(i) ==
    IF i.serial_event_dynamic_fields = Null THEN <<>>
    ELSE LinesOf(i.serial_event_dynamic_fields)

\* the position of the first colon of a line (Len(line) + 1 if none)
ColonAt(line) ==
    IF \E p \in 1..Len(line) : line[p] = ":"
    THEN CHOOSE p \in 1..Len(line) :
             line[p] = ":" /\ \A q \in 1..(p - 1) : line[q] # ":"
    ELSE Len(line) + 1

\* a line of the form "<digits>: <value>"
WellFormed(line) ==
    LET c == ColonAt(line)
    IN  /\ c <= Len(line)
        /\ c > 1
        /\ \A q \in 1..(c - 1) : line[q] \in Digit

LineKey(line) == SubSeq(line, 1, ColonAt(line) - 1)

LineValue(line) == Strip(SubSeq(line, ColonAt(line) + 1, Len(line)))

\* the lines, over all registrants, that answer field f
AnswerLines(f) ==
    UNION {{<<i, k>> : k \in {n \in 1..Len(BlobLines(i)) :
                                  /\ WellFormed(BlobLines(i)[n])
                                  /\ LineKey(BlobLines(i)[n]) = Str(f.id)}} :
              i \in Registrations}

\* the answers counted in an entry of distribution, one element per answer
CountedAnswers(counts) ==
    UNION {{<<v, n>> : n \in 1..counts[v]} : v \in DOMAIN counts \ {Undefined}}

\* C21 as claimed: a line without a colon, or whose key is not made only of
\* digits, gives no answer and no error: the answers counted for a field are no
\* more than the lines "<digits>: <value>" that name it.
C21_MalformedLinesIgnored ==
    LET r == result.dynamic
    IN  /\ r # NoResult => r.kind = "ok"
        /\ r.kind = "ok" =>
               \A f \in SoleLabelled :
                   f.label \in DOMAIN r.distribution =>
                       Cardinality(CountedAnswers(r.distribution[f.label]))
                           <= Cardinality(AnswerLines(f))

\* every line of every blob is empty or of the form "<digits>: <value>"
NoMalformedLine ==
    \A i \in Registrations : \A k \in 1..Len(BlobLines(i)) :
        BlobLines(i)[k] = <<>> \/ WellFormed(BlobLines(i)[k])

\* C22 as claimed: every answer takes its value from the line of its key, a line
\* "<id>:" gives the empty value and the next line is an answer of its own: the
\* count of a value of a field is the number of lines that give the field that
\* value.
C22_ValueFromOwnLine ==
    LET r == result.dynamic
    IN  (r.kind = "ok" /\ NoMalformedLine) =>
            \A f \in SoleLabelled :
                f.label \in DOMAIN r.distribution =>
                    LET counts == r.distribution[f.label]
                        given(v) == {a \in AnswerLines(f) :
                                        LineValue(BlobLines(a[1])[a[2]]) = v}
                    IN  /\ \A v \in DOMAIN counts \ {Undefined} :
                               counts[v] = Cardinality(given(v))
                        /\ \A a \in AnswerLines(f) :
                               LineValue(BlobLines(a[1])[a[2]]) \in DOMAIN counts

\* every blob is made of lines "<digits>: <value>" with a value on the line, no
\* field named twice and no answer that is the word undefined
PlainBlobs ==
    /\ NoMalformedLine
    /\ \A i \in Registrations : \A k \in 1..Len(BlobLines(i)) :
           LET line == BlobLines(i)[k]
           IN  line # <<>> =>
                   /\ LineValue(line) \notin {<<>>, Undefined}
                   /\ \A j \in 1..Len(BlobLines(i)) :
                          (BlobLines(i)[j] # <<>>
                               /\ LineKey(BlobLines(i)[j]) = LineKey(line)) => j = k

\* C23 as claimed: distribution has one entry for every field that passes the
\* filter, also when two fields of the event carry the same label.
C23_OneEntryPerField ==
    LET r == result.dynamic
        passing == {f \in EventFields : PassesFilter(Cardinality(DistinctValues(f)))}
    IN  (r.kind = "ok" /\ PlainBlobs /\ TotalRegistrations > 0) =>
            Cardinality(DOMAIN r.distribution) = Cardinality(passing)

----------------------------------------------------------------------------
(* C24 *)

\* C24 as claimed: targetInscriptions of the registration view is the target
\* registration count configured for the event, also for an event without
\* registrations.
C24_TargetIsConfigured ==
    LET r == result.inscriptions
    IN  r.kind = "ok" => r.targetInscriptions = TheEventRow.limit_maximo_inscritos

----------------------------------------------------------------------------
(* C25 *)

\* C25 as claimed: when a step of a refresh raises, the four tables in memory
\* are the ones the refresh started with: none has been read in this refresh.
C25_FailedRefreshKeepsTables ==
    [][Except => \A t \in TableNames : tables[t].cycle < clock.cycle]_vars

----------------------------------------------------------------------------
(* C26, C27: the paging by last_id *)

\* the ids of a file, as a set
IdsOf(file) == {file.rows[k] : k \in 1..Len(file.rows)}

\* a call has returned
Returned == paging.pc = "idle" /\ paging.fn \in ExportFns

\* C26: once a call has returned, its file holds every row the query selects that
\* was upstream when the call started, each row exactly once and the rows by
\* ascending id, and nothing but selected rows; for every batch size.
C26_FileIsSelectedRowsOnce ==
    Returned =>
        LET file == csv_files[paging.fn]
        IN  /\ observed.started_with \subseteq IdsOf(file)
            /\ \A j, k \in 1..Len(file.rows) : j < k => file.rows[j] < file.rows[k]
            /\ IdsOf(file) \subseteq {r.id : r \in Selected(paging.fn, 0)}

\* a later call of export_data that found a row in its file and appended a row
\* inserted since, past a row the query does not select
C26_Witness ==
    /\ Returned
    /\ paging.fn = "export_data"
    /\ observed.resumed
    /\ paging.batch_size = 1
    /\ csv_files["export_data"].rows = <<1, 3>>
    /\ Row(2, FALSE) \in source

\* C27: every call returns, and each turn of its loop either fetches no row and
\* leaves the loop or ends with a larger last_id.
C27_PagingTerminates ==
    /\ [][/\ Execute => \/ paging'.results = <<>> /\ paging'.pc = "idle"
                        \/ paging'.results # <<>> /\ paging'.pc = "to_csv"
          /\ ToCsv => paging'.last_id > paging.last_id]_vars
    /\ (paging.pc # "idle") ~> (paging.pc = "idle")

\* a call that has returned after more turns of the loop than one
C27_Witness ==
    /\ Returned
    /\ Len(csv_files[paging.fn].rows) > paging.batch_size
    /\ paging.results = <<>>

====
